---- MODULE Spec2Model ----
(***************************************************************************)
(* Model of the ScannerDashboard component (scan-progress simulator).      *)
(*                                                                         *)
(* progress is a JavaScript number in the source.  It is modelled in fixed *)
(* point: one unit is 1/ProgressScale of a percent, so that                *)
(* Math.floor(progress * 1000) is a real rounding and not the identity.    *)
(***************************************************************************)
EXTENDS Integers, Sequences, FiniteSets, TLC

\* ---- model resolution (bound) ----
ProgressScale == 2000

\* ---- program constants ----
FullProgress == 100
PointsPerPercent == 1000
MaxIncrement == 2
InitialEstimate == 300

Full == FullProgress * ProgressScale

\* Values of Math.random() * 2, a number in [0, 2): the smallest and the
\* largest one the resolution can represent.
Steps == {0, MaxIncrement * ProgressScale - 1}

Min(a, b) == IF a <= b THEN a ELSE b
Max(a, b) == IF a >= b THEN a ELSE b

VARIABLES
    scannerStatus,  \* the ScannerStatus record held by useState
    lastPhoto,      \* useState<string | null>
    interval,       \* TRUE while the progress effect's setInterval is armed
    op,             \* history: the last operation applied
    before,         \* history: scannerStatus as that operation found it
    rng,            \* the values Math.random() * 2 takes in the progress effect
    ticks,          \* history: firings of the interval in the current scan run
    previewImage,   \* PhotoPreview: useState<string | null>
    isCapturing,    \* PhotoPreview: useState(false)
    captureInterval,    \* TRUE while PhotoPreview's setInterval is armed
    pendingCaptures,    \* PhotoPreview: setTimeout callbacks not yet run
    logs,           \* ScannerConsole: useState<LogEntry[]>
    feederInterval, \* TRUE while ScannerConsole's setInterval is armed
    nextId,         \* ordinal given to the next LogEntry of the buffer
    epoch,          \* flips at each clear; with the ordinal, an entry's id
    logsBefore,     \* history: logs as the last console operation found it
    feederDelay,    \* the period, in ms, of the armed console interval; else 0
    lastGap,        \* history: the delay that preceded the run's last firing
    periods,        \* the values 1000 + Math.random() * 2000 takes, in order
    periodDraws,    \* how many of them have been drawn, modulo their number
    lastExport,     \* the lines of the last transcript handed to the browser
    mounted,        \* TRUE until the dashboard view is torn down
    settings,       \* Settings: config, defaultConfig, loading and the objects
    load,           \* loadConfigs: its position and its local configData
    errorToasts,    \* toast.error notifications raised
    originalDefault,    \* history: the default document as it was parsed
    settingsBefore  \* history: settings as the last Settings operation found it

scanVars == <<scannerStatus, lastPhoto, interval, rng, ticks, mounted>>
photoVars == <<previewImage, isCapturing, captureInterval, pendingCaptures>>
logVars ==
    <<logs, feederInterval, nextId, epoch, logsBefore,
      feederDelay, lastGap, periods, periodDraws, lastExport>>

settingsVars ==
    <<settings, load, errorToasts, originalDefault, settingsBefore>>

vars == <<scanVars, op, before, photoVars, logVars, settingsVars>>

InitialStatus ==
    [isScanning |-> FALSE, progress |-> 0, status |-> "idle",
     pointsCollected |-> 0, estimatedTime |-> 0]

\* ---- state updaters ----
\* startScan that keeps the point count of the previous run
startScanKeepsPoints(prev) ==
    [prev EXCEPT !.isScanning = TRUE, !.status = "scanning", !.progress = 0,
                 !.estimatedTime = InitialEstimate]

startScan(prev) ==
    [prev EXCEPT !.isScanning = TRUE, !.status = "scanning", !.progress = 0,
                 !.pointsCollected = 0, !.estimatedTime = InitialEstimate]

\* stopScan that also clears the time estimate, as resetScan does
stopScanClearsEstimate(prev) ==
    [prev EXCEPT !.isScanning = FALSE, !.status = "idle", !.progress = 0,
                 !.estimatedTime = 0]

stopScan(prev) ==
    [prev EXCEPT !.isScanning = FALSE, !.status = "idle", !.progress = 0]

resetScan(prev) ==
    [isScanning |-> FALSE, progress |-> 0, status |-> "idle",
     pointsCollected |-> 0, estimatedTime |-> 0]

\* tick without the Math.min clamp
tickNoClamp(prev, r) ==
    LET newProgress == prev.progress + r
        newPoints == (newProgress * PointsPerPercent) \div ProgressScale
    IN  IF newProgress >= Full
        THEN [prev EXCEPT !.progress = Full, !.status = "complete",
                          !.isScanning = FALSE, !.pointsCollected = newPoints]
        ELSE [prev EXCEPT !.progress = newProgress,
                          !.pointsCollected = newPoints,
                          !.estimatedTime = Max(0, prev.estimatedTime - 1)]

\* tick that tests newProgress > 100 instead of >= 100
tickStrictTest(prev, r) ==
    LET newProgress == Min(prev.progress + r, Full)
        newPoints == (newProgress * PointsPerPercent) \div ProgressScale
    IN  IF newProgress > Full
        THEN [prev EXCEPT !.progress = Full, !.status = "complete",
                          !.isScanning = FALSE, !.pointsCollected = newPoints]
        ELSE [prev EXCEPT !.progress = newProgress,
                          !.pointsCollected = newPoints,
                          !.estimatedTime = Max(0, prev.estimatedTime - 1)]

\* tick whose completion branch leaves isScanning as it was
tickKeepsScanning(prev, r) ==
    LET newProgress == Min(prev.progress + r, Full)
        newPoints == (newProgress * PointsPerPercent) \div ProgressScale
    IN  IF newProgress >= Full
        THEN [prev EXCEPT !.progress = Full, !.status = "complete",
                          !.pointsCollected = newPoints]
        ELSE [prev EXCEPT !.progress = newProgress,
                          !.pointsCollected = newPoints,
                          !.estimatedTime = Max(0, prev.estimatedTime - 1)]

\* tick that takes the random increment as the new progress
tickNoAccumulate(prev, r) ==
    LET newProgress == Min(r, Full)
        newPoints == (newProgress * PointsPerPercent) \div ProgressScale
    IN  IF newProgress >= Full
        THEN [prev EXCEPT !.progress = Full, !.status = "complete",
                          !.isScanning = FALSE, !.pointsCollected = newPoints]
        ELSE [prev EXCEPT !.progress = newProgress,
                          !.pointsCollected = newPoints,
                          !.estimatedTime = Max(0, prev.estimatedTime - 1)]

\* tick that counts the time estimate down in the completion branch too
tickAlwaysCountsDown(prev, r) ==
    LET newProgress == Min(prev.progress + r, Full)
        newPoints == (newProgress * PointsPerPercent) \div ProgressScale
    IN  IF newProgress >= Full
        THEN [prev EXCEPT !.progress = Full, !.status = "complete",
                          !.isScanning = FALSE, !.pointsCollected = newPoints,
                          !.estimatedTime = Max(0, prev.estimatedTime - 1)]
        ELSE [prev EXCEPT !.progress = newProgress,
                          !.pointsCollected = newPoints,
                          !.estimatedTime = Max(0, prev.estimatedTime - 1)]

\* tick whose completion branch enters a processing phase
tickToProcessing(prev, r) ==
    LET newProgress == Min(prev.progress + r, Full)
        newPoints == (newProgress * PointsPerPercent) \div ProgressScale
    IN  IF newProgress >= Full
        THEN [prev EXCEPT !.progress = Full, !.status = "processing",
                          !.isScanning = FALSE, !.pointsCollected = newPoints]
        ELSE [prev EXCEPT !.progress = newProgress,
                          !.pointsCollected = newPoints,
                          !.estimatedTime = Max(0, prev.estimatedTime - 1)]

tick(prev, r) ==
    LET newProgress == Min(prev.progress + r, Full)
        newPoints == (newProgress * PointsPerPercent) \div ProgressScale
    IN  IF newProgress >= Full
        THEN [prev EXCEPT !.progress = Full, !.status = "complete",
                          !.isScanning = FALSE, !.pointsCollected = newPoints]
        ELSE [prev EXCEPT !.progress = newProgress,
                          !.pointsCollected = newPoints,
                          !.estimatedTime = Max(0, prev.estimatedTime - 1)]

\* ---- button guards ----
\* a Start button that is never disabled
StartNeverDisabled(s) == FALSE

StartDisabled(s) == s.isScanning

\* a Stop button that is never disabled
StopNeverDisabled(s) == FALSE

StopDisabled(s) == ~s.isScanning

\* ---- PointCloudViewer ----
MaxSamples == 50000
ItemSize == 3

\* the generator without the Math.min limit
PointCloudNoLimit(pointsCollected) ==
    LET count == pointsCollected
    IN  [positions |-> count * ItemSize, colors |-> count * ItemSize,
         filled |-> count]

\* The useMemo generator: the lengths of the two Float32Arrays and the
\* number of loop iterations, each of which fills one point's three
\* positions and three colors.
PointCloud(pointsCollected) ==
    LET count == Min(pointsCollected, MaxSamples)
    IN  [positions |-> count * ItemSize, colors |-> count * ItemSize,
         filled |-> count]

NoCloud == [positions |-> 0, colors |-> 0, filled |-> 0]

\* {pointsCollected > 0 && <PointCloud .../>}
RenderedCloud(s) ==
    IF s.pointsCollected > 0 THEN PointCloud(s.pointsCollected) ELSE NoCloud

\* ---- ScannerConsole ----
LogCap == 1000

\* the catalog of the console output effect
Messages ==
    << "Initializing laser scanner module...",
       "Calibrating stepper motors...",
       "Starting sensor readings...",
       "Point cloud generation in progress...",
       "Processing LIDAR data stream...",
       "Updating real-time visualization...",
       "Collecting depth measurements...",
       "Optimizing scan trajectory...",
       "Storing point cloud data...",
       "Applying noise reduction filters..." >>

\* Array.prototype.slice(-n)
LastN(s, n) == IF Len(s) <= n THEN s ELSE SubSeq(s, Len(s) - n + 1, Len(s))

LogEntry(id, level, message) ==
    [id |-> id, level |-> level, message |-> message]

\* addLog that keeps the first 1000 entries, slice(0, 1000)
addLogKeepsFirst(prev, level, message, id) ==
    LET all == Append(prev, LogEntry(id, level, message))
    IN  IF Len(all) <= LogCap THEN all ELSE SubSeq(all, 1, LogCap)

addLog(prev, level, message, id) ==
    LastN(Append(prev, LogEntry(id, level, message)), LogCap)

\* clearLogs whose append starts from the buffer it found
clearLogsKeepsOld(prev, id) ==
    addLog(prev, "info", "Console cleared", id)

\* setLogs([]) followed by addLog's functional update
clearLogs(prev, id) ==
    addLog(<< >>, "info", "Console cleared", id)

\* the four entries of the "Initial logs" effect, applied to the empty buffer
InitialLogs ==
    addLog(addLog(addLog(addLog(<< >>,
        "success", "Raspberry Pi 4 Scanner System Ready", <<0, 1>>),
        "info", "LIDAR sensor connected on GPIO pins 18, 19", <<0, 2>>),
        "info", "Stepper motors initialized", <<0, 3>>),
        "info", "Waiting for scan command...", <<0, 4>>)

ClearDisabled(l) == Len(l) = 0

ExportDisabled(l) == Len(l) = 0

\* String.prototype.toUpperCase on the four levels
ToUpperCase(level) ==
    CASE level = "info" -> "INFO"
      [] level = "warn" -> "WARN"
      [] level = "error" -> "ERROR"
      [] level = "success" -> "SUCCESS"

\* exportLogs: one line per entry, in buffer order; the timestamp an entry
\* carries is not followed, so a line is its upper-cased level and message
exportLogs(l) ==
    [i \in 1..Len(l) |->
        [level |-> ToUpperCase(l[i].level), message |-> l[i].message]]

NoExport == << >>

\* 1000 + Math.random() * 2000, in whole milliseconds
MinPeriod == 1000
PeriodSpread == 2000

\* a random source pinned to one value
OnePeriod == <<MinPeriod>>

\* a random source pinned to values that differ from one draw to the next
PinnedPeriods ==
    <<MinPeriod, MinPeriod + PeriodSpread - 1, MinPeriod + PeriodSpread \div 2>>

\* ---- Settings ----
MaxValue == 1

Categories == {"scanner", "laser", "motor", "camera", "processing"}

\* the fields followed in each category; in the last two the category
\* object is followed without its fields
Keys(category) ==
    CASE category = "scanner" -> {"scanSpeed", "pointDensity"}
      [] category = "laser" -> {"power"}
      [] category = "motor" -> {"speed"}
      [] category = "camera" -> {}
      [] category = "processing" -> {}

Values == 0..MaxValue

\* null, a rejected response.json(), and an object that does not exist
Null == [null |-> TRUE]
Invalid == [invalid |-> TRUE]
NoObject == [none |-> TRUE]

\* a document whose every field is v
DocOf(v) == [c \in Categories |-> [k \in Keys(c) |-> v]]

\* what response.json() may give: a configuration document, the JSON value
\* null, or a rejection (the body is not JSON)
ServedDocs == {DocOf(0), DocOf(MaxValue)}
ParseResults == ServedDocs \cup {Null, Invalid}

\* The objects of the Settings state.  config and defaultConfig map each
\* category to a reference; objects holds each referenced category object:
\* <<"c", category>> from config.json, <<"d", category>> from
\* config-default.json, <<"u", category>> made by updateConfig.
Refs == {"c", "d", "u"} \X Categories

InitialSettings ==
    [config |-> Null, defaultConfig |-> Null, loading |-> TRUE,
     objects |-> [r \in Refs |-> NoObject]]

\* the document a top-level object denotes
DocValue(st, top) ==
    IF top = Null THEN Null
    ELSE [c \in Categories |-> st.objects[top[c]]]

\* if (loading || !config): the loading display
ShowsLoadingIgnoresConfig(st) == st.loading

ShowsLoading(st) == st.loading \/ st.config = Null

\* the try block after both bodies are parsed, then finally
configsLoaded(st, configData, defaultData) ==
    [config |-> IF configData = Null THEN Null
                ELSE [c \in Categories |-> <<"c", c>>],
     defaultConfig |-> IF defaultData = Null THEN Null
                       ELSE [c \in Categories |-> <<"d", c>>],
     loading |-> FALSE,
     objects |-> [r \in Refs |->
         IF r[1] = "c" /\ configData # Null THEN configData[r[2]]
         ELSE IF r[1] = "d" /\ defaultData # Null THEN defaultData[r[2]]
         ELSE NoObject]]

\* catch, then finally
loadFailed(st) == [st EXCEPT !.loading = FALSE]

\* updateConfig that writes the field into the category object it found
updateConfigInPlace(st, category, key, value) ==
    IF st.config = Null THEN st
    ELSE [st EXCEPT !.objects[st.config[category]][key] = value]

updateConfig(st, category, key, value) ==
    IF st.config = Null THEN st
    ELSE [st EXCEPT
            !.objects[<<"u", category>>] =
                [st.objects[st.config[category]] EXCEPT ![key] = value],
            !.config[category] = <<"u", category>>]

\* setConfig({ ...defaultConfig }): a new top-level object with the
\* category objects of defaultConfig
restoreDefaults(st) ==
    IF st.defaultConfig # Null
    THEN [st EXCEPT !.config = st.defaultConfig]
    ELSE st

InitSettings ==
    /\ settings = InitialSettings
    /\ load = [pc |-> "fetch", configData |-> Null]
    /\ errorToasts = 0
    /\ originalDefault = Null
    /\ settingsBefore = InitialSettings

\* ---- bounds of the runs ----
MaxTicks == 301
MaxPendingCaptures == 1
MaxDashboardAppends == 5
MaxAppends == 1050
MaxViewAppends == 6

\* Init is the state after the first render and its effects: the console's
\* "Initial logs" effect has appended its four entries.
InitComponents ==
    /\ scannerStatus = InitialStatus
    /\ lastPhoto = "null"
    /\ interval = FALSE
    /\ op = "init"
    /\ before = InitialStatus
    /\ ticks = 0
    /\ previewImage = "null"
    /\ isCapturing = FALSE
    /\ captureInterval = FALSE
    /\ pendingCaptures = 0
    /\ logs = InitialLogs
    /\ feederInterval = FALSE
    /\ nextId = 5
    /\ epoch = 0
    /\ logsBefore = << >>
    /\ feederDelay = 0
    /\ lastGap = 0
    /\ periodDraws = 0
    /\ lastExport = NoExport
    /\ mounted = TRUE
    /\ InitSettings

Init ==
    /\ InitComponents
    /\ rng = Steps
    /\ periods = OnePeriod

\* the effects with a console output effect that returns no cleanup
EffectsRunFeederNotCleared(scanning) ==
    /\ interval' = scanning
    /\ captureInterval' = scanning
    /\ feederInterval' = (feederInterval \/ scanning)
    /\ feederDelay' = IF scanning THEN periods[periodDraws + 1]
                      ELSE feederDelay
    /\ periodDraws' = IF scanning THEN (periodDraws + 1) % Len(periods)
                      ELSE periodDraws
    /\ lastGap' = IF scanning THEN 0 ELSE lastGap

\* The three effects keyed on isScanning (progress, photo capture, console
\* output) re-run in the same flush: each arms its interval when isScanning
\* is true and clears it otherwise.  The console output effect draws the
\* period of its interval as it arms it.
EffectsRun(scanning) ==
    /\ interval' = scanning
    /\ captureInterval' = scanning
    /\ feederInterval' = scanning
    /\ feederDelay' = IF scanning THEN periods[periodDraws + 1] ELSE 0
    /\ periodDraws' = IF scanning THEN (periodDraws + 1) % Len(periods)
                      ELSE periodDraws
    /\ lastGap' = 0

\* A click on "Start Scan".  A disabled button delivers no click, so
\* nothing runs.  Otherwise the render that follows the update re-runs the
\* effects, which arm the intervals when isScanning is true.
ClickStart ==
    /\ mounted
    /\ scannerStatus' = IF StartDisabled(scannerStatus) THEN scannerStatus
                        ELSE startScan(scannerStatus)
    /\ IF StartDisabled(scannerStatus)
       THEN UNCHANGED <<interval, captureInterval, feederInterval, ticks,
                        feederDelay, periodDraws, lastGap>>
       ELSE EffectsRun(scannerStatus'.isScanning) /\ ticks' = 0
    /\ op' = "start"
    /\ before' = scannerStatus
    /\ UNCHANGED <<lastPhoto, rng, previewImage, isCapturing, pendingCaptures,
                   logs, nextId, epoch, logsBefore>>
    /\ UNCHANGED <<periods, lastExport, mounted>>
    /\ UNCHANGED settingsVars

\* A click on "Stop".
ClickStop ==
    /\ mounted
    /\ scannerStatus' = IF StopDisabled(scannerStatus) THEN scannerStatus
                        ELSE stopScan(scannerStatus)
    /\ IF StopDisabled(scannerStatus)
       THEN UNCHANGED <<interval, captureInterval, feederInterval,
                        feederDelay, periodDraws, lastGap>>
       ELSE EffectsRun(scannerStatus'.isScanning)
    /\ op' = "stop"
    /\ before' = scannerStatus
    /\ UNCHANGED <<lastPhoto, rng, ticks, previewImage, isCapturing,
                   pendingCaptures, logs, nextId, epoch, logsBefore>>
    /\ UNCHANGED <<periods, lastExport, mounted>>
    /\ UNCHANGED settingsVars

\* a reset that also empties the console
ResetClearsConsole ==
    /\ mounted
    /\ scannerStatus' = resetScan(scannerStatus)
    /\ lastPhoto' = "null"
    /\ EffectsRun(scannerStatus'.isScanning)
    /\ logs' = << >>
    /\ op' = "reset"
    /\ before' = scannerStatus
    /\ UNCHANGED <<rng, ticks, previewImage, isCapturing, pendingCaptures,
                   nextId, epoch, logsBefore>>
    /\ UNCHANGED <<periods, lastExport, mounted>>
    /\ UNCHANGED settingsVars

\* resetScan is bound to no button; it is the component's reset operation.
Reset ==
    /\ mounted
    /\ scannerStatus' = resetScan(scannerStatus)
    /\ lastPhoto' = "null"
    /\ EffectsRun(scannerStatus'.isScanning)
    /\ op' = "reset"
    /\ before' = scannerStatus
    /\ UNCHANGED <<rng, ticks, previewImage, isCapturing, pendingCaptures,
                   logs, nextId, epoch, logsBefore>>
    /\ UNCHANGED <<periods, lastExport, mounted>>
    /\ UNCHANGED settingsVars

\* One firing of the 100 ms interval.
Tick ==
    /\ interval
    /\ \E r \in rng : scannerStatus' = tick(scannerStatus, r)
    /\ ticks' = IF scannerStatus.isScanning THEN Min(ticks + 1, MaxTicks)
                ELSE ticks
    /\ op' = "tick"
    /\ before' = scannerStatus
    /\ UNCHANGED <<lastPhoto, interval, rng, mounted, photoVars, logVars>>
    /\ UNCHANGED settingsVars

\* The effect cleanups (clearInterval) that follow a timer-driven update
\* to isScanning = false.  They run after the render, so a firing of an
\* interval that is already due can precede them.
EffectCleanup ==
    /\ interval
    /\ ~scannerStatus.isScanning
    /\ EffectsRun(FALSE)
    /\ op' = "cleanup"
    /\ before' = scannerStatus
    /\ UNCHANGED <<scannerStatus, lastPhoto, rng, ticks,
                   previewImage, isCapturing, pendingCaptures, logs, nextId, epoch, logsBefore>>
    /\ UNCHANGED <<periods, lastExport, mounted>>
    /\ UNCHANGED settingsVars

Next == ClickStart \/ ClickStop \/ Reset \/ Tick \/ EffectCleanup

Spec == Init /\ [][Next]_vars

\* ---- PhotoPreview ----
\* One firing of the 5 s capture interval: it schedules the 500 ms timeout.
CaptureFire ==
    /\ captureInterval
    /\ pendingCaptures < MaxPendingCaptures
    /\ isCapturing' = TRUE
    /\ pendingCaptures' = pendingCaptures + 1
    /\ op' = "capture"
    /\ before' = scannerStatus
    /\ UNCHANGED <<scanVars, previewImage, captureInterval, logVars>>
    /\ UNCHANGED settingsVars

\* The timeout callback: the effect cleanup never clears it.  Once the view
\* is torn down the callback still runs, and its two updates are dropped.
CaptureDone ==
    /\ pendingCaptures > 0
    /\ previewImage' = IF mounted THEN "photo" ELSE previewImage
    /\ isCapturing' = IF mounted THEN FALSE ELSE isCapturing
    /\ pendingCaptures' = pendingCaptures - 1
    /\ op' = "photo"
    /\ before' = scannerStatus
    /\ UNCHANGED <<scanVars, captureInterval, logVars>>
    /\ UNCHANGED settingsVars

\* ---- ScannerConsole actions ----
\* One firing of the console output interval; draws are the <<level,
\* message index>> pairs the two Math.random() calls may give.
FeederFire(draws, limit) ==
    /\ feederInterval
    /\ nextId <= limit
    /\ \E d \in draws :
           logs' = addLog(logs, d[1], Messages[d[2]], <<epoch, nextId>>)
    /\ nextId' = nextId + 1
    /\ UNCHANGED epoch
    /\ logsBefore' = logs
    /\ lastGap' = feederDelay
    /\ op' = "feed"
    /\ before' = scannerStatus
    /\ UNCHANGED <<scanVars, photoVars, feederInterval, feederDelay,
                   periods, periodDraws, lastExport>>
    /\ UNCHANGED settingsVars

DashboardDraws == {<<"info", 1>>, <<"warn", 10>>}

FeederTick == FeederFire(DashboardDraws, MaxDashboardAppends)

\* A click on "Clear".  Ordinals restart with the entry that notes the
\* clear: they number the entries appended since the buffer was emptied,
\* and the epoch keeps the new ids apart from the ids of the old entries.
ClearLogs ==
    /\ mounted
    /\ ~ClearDisabled(logs)
    /\ epoch' = 1 - epoch
    /\ logs' = clearLogs(logs, <<epoch', 1>>)
    /\ nextId' = 2
    /\ logsBefore' = logs
    /\ op' = "clear"
    /\ before' = scannerStatus
    /\ UNCHANGED <<scanVars, photoVars, feederInterval, feederDelay, lastGap,
                   periods, periodDraws, lastExport>>
    /\ UNCHANGED settingsVars

\* ---- scan runs in which every tick adds the same increment ----
RunSteps ==
    {ProgressScale \div 2, ProgressScale, MaxIncrement * ProgressScale - 1}

InitUniform ==
    /\ InitComponents
    /\ rng \in {{d} : d \in RunSteps}
    /\ periods = OnePeriod

SpecUniform == InitUniform /\ [][Next]_vars

\* ---- the console over a long scan; the scan's progress is left out ----
\* one draw per firing, varying with the ordinal
LongRunDraws ==
    {<<IF nextId % 10 = 0 THEN "warn" ELSE "info", (nextId % 10) + 1>>}

FeederTickLong == FeederFire(LongRunDraws, MaxAppends)

InitLog ==
    /\ InitComponents
    /\ rng = {}
    /\ periods = OnePeriod

NextLog == ClickStart \/ ClickStop \/ FeederTickLong \/ ClearLogs

SpecLog == InitLog /\ [][NextLog]_vars

\* ---- the whole dashboard, with the largest increment only ----
InitDashboard ==
    /\ InitComponents
    /\ rng = {MaxIncrement * ProgressScale - 1}
    /\ periods = OnePeriod

NextDashboard ==
    \/ ClickStart \/ ClickStop \/ Reset \/ Tick \/ EffectCleanup
    \/ CaptureFire \/ CaptureDone
    \/ FeederTick \/ ClearLogs

SpecDashboard == InitDashboard /\ [][NextDashboard]_vars

\* ---- the console's timing, with a random source whose draws differ ----
InitFeeder ==
    /\ InitComponents
    /\ rng = {MaxIncrement * ProgressScale - 1}
    /\ periods = PinnedPeriods

NextFeeder ==
    ClickStart \/ ClickStop \/ Tick \/ EffectCleanup \/ FeederTick

SpecFeeder == InitFeeder /\ [][NextFeeder]_vars

\* ---- scan operations interleaved with console operations ----
\* A click on "Export": the transcript is handed to the browser as a
\* download; no state of the component is written.
ExportLogs ==
    /\ mounted
    /\ ~ExportDisabled(logs)
    /\ lastExport' = exportLogs(logs)
    /\ logsBefore' = logs
    /\ op' = "export"
    /\ before' = scannerStatus
    /\ UNCHANGED <<scanVars, photoVars, logs, feederInterval, nextId, epoch,
                   feederDelay, lastGap, periods, periodDraws>>
    /\ UNCHANGED settingsVars

FeederTickView == FeederFire(LongRunDraws, MaxViewAppends)

NextInterleave ==
    \/ ClickStart \/ ClickStop \/ Reset \/ Tick \/ EffectCleanup
    \/ FeederTickView \/ ClearLogs \/ ExportLogs

SpecInterleave == InitDashboard /\ [][NextInterleave]_vars

\* ---- the dashboard view to its teardown ----
\* The view is torn down: every effect's cleanup runs, which clears the
\* three intervals; nothing clears a capture timeout that is pending.
Unmount ==
    /\ mounted
    /\ mounted' = FALSE
    /\ EffectsRun(FALSE)
    /\ op' = "unmount"
    /\ before' = scannerStatus
    /\ UNCHANGED <<scannerStatus, lastPhoto, rng, ticks,
                   previewImage, isCapturing, pendingCaptures,
                   logs, nextId, epoch, logsBefore, periods, lastExport>>
    /\ UNCHANGED settingsVars

NextTeardown ==
    \/ ClickStart \/ ClickStop \/ Tick \/ EffectCleanup
    \/ CaptureFire \/ CaptureDone \/ FeederTick \/ Unmount

SpecTeardown == InitDashboard /\ [][NextTeardown]_vars

\* ---- Settings actions ----
dashboardVars == <<scanVars, before, photoVars, logVars>>

\* catch (error) { console.error; toast.error } finally { setLoading(false) }
LoadFail ==
    /\ settings' = loadFailed(settings)
    /\ errorToasts' = errorToasts + 1
    /\ load' = [load EXCEPT !.pc = "done"]
    /\ op' = "loadFailed"
    /\ settingsBefore' = settings
    /\ UNCHANGED <<originalDefault, dashboardVars>>

\* await Promise.all([fetch, fetch]) settles: both resolve, or one rejects
FetchSettle ==
    /\ load.pc = "fetch"
    /\ \/ /\ load' = [load EXCEPT !.pc = "parseConfig"]
          /\ op' = "fetched"
          /\ settingsBefore' = settings
          /\ UNCHANGED <<settings, errorToasts, originalDefault, dashboardVars>>
       \/ LoadFail

\* await configResponse.json()
ParseConfig ==
    /\ load.pc = "parseConfig"
    /\ \E r \in ParseResults :
          IF r = Invalid THEN LoadFail
          ELSE /\ load' = [pc |-> "parseDefault", configData |-> r]
               /\ op' = "parsedConfig"
               /\ settingsBefore' = settings
               /\ UNCHANGED <<settings, errorToasts, originalDefault,
                              dashboardVars>>

\* await defaultResponse.json(), then setConfig, setDefaultConfig, finally
ParseDefault ==
    /\ load.pc = "parseDefault"
    /\ \E r \in ParseResults :
          IF r = Invalid THEN LoadFail
          ELSE /\ settings' = configsLoaded(settings, load.configData, r)
               /\ originalDefault' = r
               /\ load' = [load EXCEPT !.pc = "done"]
               /\ op' = "loaded"
               /\ settingsBefore' = settings
               /\ UNCHANGED <<errorToasts, dashboardVars>>

\* An edit of one field; the inputs exist only in the settings view.
UpdateConfig ==
    /\ ~ShowsLoading(settings)
    /\ \E c \in Categories : \E k \in Keys(c) : \E v \in Values :
          settings' = updateConfig(settings, c, k, v)
    /\ op' = "update"
    /\ settingsBefore' = settings
    /\ UNCHANGED <<load, errorToasts, originalDefault, dashboardVars>>

\* A click on "Restore Defaults".
RestoreDefaults ==
    /\ ~ShowsLoading(settings)
    /\ settings' = restoreDefaults(settings)
    /\ op' = "restore"
    /\ settingsBefore' = settings
    /\ UNCHANGED <<load, errorToasts, originalDefault, dashboardVars>>

\* A click on "Save Configuration": it logs and raises a success notice.
SaveConfig ==
    /\ ~ShowsLoading(settings)
    /\ op' = "save"
    /\ settingsBefore' = settings
    /\ UNCHANGED <<settings, load, errorToasts, originalDefault, dashboardVars>>

NextSettings ==
    \/ FetchSettle \/ ParseConfig \/ ParseDefault
    \/ UpdateConfig \/ RestoreDefaults \/ SaveConfig

SpecSettings == Init /\ [][NextSettings]_vars

TypeOK ==
    /\ scannerStatus.isScanning \in BOOLEAN
    /\ scannerStatus.progress \in 0..Full
    /\ scannerStatus.status \in {"idle", "scanning", "processing", "complete", "error"}
    /\ scannerStatus.pointsCollected \in Nat
    /\ scannerStatus.estimatedTime \in 0..InitialEstimate
    /\ interval \in BOOLEAN

\* ---- properties ----

StartedState ==
    [isScanning |-> TRUE, progress |-> 0, status |-> "scanning",
     pointsCollected |-> 0, estimatedTime |-> InitialEstimate]

\* C1: after every tick, pointsCollected = floor(progress * 1000) for the
\* progress that tick produced.
C1_PointsFollowProgress ==
    op = "tick" =>
        scannerStatus.pointsCollected =
            (scannerStatus.progress * PointsPerPercent) \div ProgressScale

\* a tick has produced a progress whose thousandfold is not an integer
C1_Witness ==
    /\ op = "tick"
    /\ (scannerStatus.progress * PointsPerPercent) % ProgressScale # 0
    /\ scannerStatus.pointsCollected > 0

\* C2: in every reachable state, status is complete iff progress is 100.
C2_CompleteIffFull ==
    (scannerStatus.status = "complete") <=> (scannerStatus.progress = Full)

\* a tick has taken a running scan to 100
C2_Witness ==
    /\ op = "tick"
    /\ before.status = "scanning"
    /\ scannerStatus.status = "complete"
    /\ scannerStatus.progress = Full

\* C3: isScanning is true only if status is scanning.
C3_ScanningOnlyInScanning ==
    scannerStatus.isScanning => scannerStatus.status = "scanning"

\* a scan is running after a tick
C3_Witness ==
    /\ op = "tick"
    /\ scannerStatus.isScanning
    /\ scannerStatus.progress > 0

\* C4: a tick never decreases progress, and progress stays within [0, 100].
C4_ProgressMonotoneAndClamped ==
    /\ op = "tick" => scannerStatus.progress >= before.progress
    /\ scannerStatus.progress >= 0
    /\ scannerStatus.progress <= Full

\* a tick whose sum exceeded 100 was clamped
C4_Witness ==
    /\ op = "tick"
    /\ before.progress > 0
    /\ before.progress < Full
    /\ \E r \in Steps : before.progress + r > Full
    /\ scannerStatus.progress = Full

\* C5: once progress is 100, status is complete and isScanning is false, and
\* a further tick leaves the whole ScanState unchanged.
C5_CompleteIsFinal ==
    /\ scannerStatus.progress = Full =>
           scannerStatus.status = "complete" /\ ~scannerStatus.isScanning
    /\ (op = "tick" /\ before.progress = Full) => scannerStatus = before

\* the interval fired once more after the scan had completed
C5_Witness ==
    /\ op = "tick"
    /\ before.progress = Full
    /\ before.status = "complete"
    /\ before.estimatedTime > 0

\* C6: start while a scan is running changes nothing.
C6_StartWhileScanningIsNoOp ==
    (op = "start" /\ before.isScanning) => scannerStatus = before

\* Start was clicked in a running scan that had advanced
C6_Witness ==
    /\ op = "start"
    /\ before.isScanning
    /\ before.progress > 0
    /\ before.estimatedTime < InitialEstimate

\* C7: start from a non-scanning state yields exactly the started state, and
\* a second start right after it leaves that state.
C7_StartYieldsStartedState ==
    /\ (op = "start" /\ ~before.isScanning) => scannerStatus = StartedState
    /\ (op = "start" /\ before = StartedState) => scannerStatus = StartedState
    /\ \A s \in {scannerStatus, before} : startScan(startScan(s)) = startScan(s)

\* start after a stopped run that had collected points
C7_Witness ==
    /\ op = "start"
    /\ ~before.isScanning
    /\ before.pointsCollected > 0
    /\ scannerStatus = StartedState

\* C8: stop while scanning sets isScanning false, status idle, progress 0
\* and leaves estimatedTimeRemaining unchanged.
C8_StopWhileScanning ==
    (op = "stop" /\ before.isScanning) =>
        /\ ~scannerStatus.isScanning
        /\ scannerStatus.status = "idle"
        /\ scannerStatus.progress = 0
        /\ scannerStatus.estimatedTime = before.estimatedTime

\* stop in a running scan whose estimate had been counted down
C8_Witness ==
    /\ op = "stop"
    /\ before.isScanning
    /\ before.progress > 0
    /\ before.estimatedTime \in 1..(InitialEstimate - 1)
    /\ scannerStatus.status = "idle"

\* C9: immediately after stop, progress is 0 and pointsCollected is 0.
C9_StopResetsPoints ==
    (op = "stop" /\ before.isScanning) =>
        scannerStatus.progress = 0 /\ scannerStatus.pointsCollected = 0

\* C10: stop when no scan is running leaves the whole ScanState unchanged.
C10_StopWhileNotScanningIsNoOp ==
    (op = "stop" /\ ~before.isScanning) => scannerStatus = before

\* Stop was clicked on a completed scan
C10_Witness ==
    /\ op = "stop"
    /\ ~before.isScanning
    /\ before.status = "complete"
    /\ scannerStatus.status = "complete"

\* C11: reset from any state yields the zero state and leaves no captured
\* photo: neither lastPhoto nor the photo the preview shows.
C11_ResetClearsPhoto ==
    op = "reset" =>
        /\ scannerStatus = InitialStatus
        /\ lastPhoto = "null"
        /\ previewImage = "null"

\* C12: status is never error or processing; it is idle, scanning or
\* complete in every reachable state.
C12_StatusValues ==
    scannerStatus.status \in {"idle", "scanning", "complete"}

\* a completed scan has been reset to idle
C12_Witness ==
    /\ op = "reset"
    /\ before.status = "complete"
    /\ scannerStatus.status = "idle"

\* C17: the sampler produces exactly min(n, 50000) samples, positions and
\* colors of equal count, and none for n = 0.
C17_SampleCount ==
    LET n == scannerStatus.pointsCollected
        g == RenderedCloud(scannerStatus)
        expected == IF n <= 50000 THEN n ELSE 50000
    IN  /\ g.filled = expected
        /\ g.positions = 3 * expected
        /\ g.colors = g.positions
        /\ n = 0 => g = NoCloud

\* a tick has collected more points than the sampler draws
C17_Witness ==
    /\ op = "tick"
    /\ scannerStatus.pointsCollected > 50000
    /\ scannerStatus.pointsCollected < 100000
    /\ RenderedCloud(scannerStatus).filled = 50000

\* C20: every tick executed while scanning, the completing one included,
\* counts estimatedTime down by exactly 1, or leaves it at 0; it is never
\* negative.
C20_EveryTickCountsDown ==
    /\ scannerStatus.estimatedTime >= 0
    /\ (op = "tick" /\ before.isScanning) =>
           scannerStatus.estimatedTime = Max(0, before.estimatedTime - 1)

\* C13: the buffer never holds more than 1000 entries; after n appends to
\* an empty buffer it holds exactly the last min(n, 1000) of them, in
\* insertion order.
C13_LastThousandKept ==
    LET n == nextId - 1
        k == IF n <= 1000 THEN n ELSE 1000
    IN  /\ Len(logs) <= 1000
        /\ Len(logs) = k
        /\ \A i \in 1..k : logs[i].id = <<epoch, n - k + i>>

\* 1050 appends: the buffer holds appends 51..1050
C13_Witness ==
    /\ nextId - 1 = 1050
    /\ Len(logs) = 1000
    /\ logs[1].id[2] = 51
    /\ logs[1000].id[2] = 1050

\* C14: after clear the buffer holds exactly one entry, of level info,
\* noting the clear; no earlier entry remains.
C14_ClearLeavesOneEntry ==
    op = "clear" =>
        /\ Len(logs) = 1
        /\ logs[1].level = "info"
        /\ logs[1].message = "Console cleared"
        /\ \A i \in 1..Len(logsBefore) : logs[1] # logsBefore[i]

\* a full buffer has been cleared
C14_Witness ==
    /\ op = "clear"
    /\ Len(logsBefore) = 1000
    /\ Len(logs) = 1

CeilDiv(a, b) == (a + b - 1) \div b

\* the number of ticks with increment r that take state s to complete
RECURSIVE TicksToComplete(_, _, _)
TicksToComplete(s, r, fuel) ==
    IF s.status = "complete" \/ fuel = 0 THEN 0
    ELSE 1 + TicksToComplete(tick(s, r), r, fuel - 1)

\* C16: in a run whose every tick adds the same d > 0, the scan completes
\* exactly at tick ceil(100 / d), with progress 100, isScanning false and
\* 100000 points; the updater fed 2.0 each time completes at tick 50.
C16_CompletesAtCeil ==
    \A d \in rng :
        /\ scannerStatus.isScanning => ticks < CeilDiv(Full, d)
        /\ scannerStatus.status = "complete" =>
               /\ ticks = CeilDiv(Full, d)
               /\ scannerStatus.progress = Full
               /\ ~scannerStatus.isScanning
               /\ scannerStatus.pointsCollected = 100000
        /\ TicksToComplete(StartedState, MaxIncrement * ProgressScale,
                           FullProgress) = 50

\* a run of increments 1.0 has completed at its 100th tick
C16_Witness ==
    /\ rng = {ProgressScale}
    /\ op = "tick"
    /\ before.isScanning
    /\ scannerStatus.status = "complete"
    /\ ticks = 100

\* C18: restoreDefaults makes the working config equal, in every category
\* and field, to the default document as it was loaded; edits never alter
\* the stored defaults; without loaded defaults it changes nothing.
C18_RestoreGivesLoadedDefaults ==
    /\ DocValue(settings, settings.defaultConfig) = originalDefault
    /\ (op = "restore" /\ settingsBefore.defaultConfig # Null) =>
           \A c \in Categories : \A k \in Keys(c) :
               DocValue(settings, settings.config)[c][k] = originalDefault[c][k]
    /\ (op = "restore" /\ settingsBefore.defaultConfig = Null) =>
           settings = settingsBefore

\* edited fields, in a category restored before and in one never restored,
\* have been put back to the defaults
C18_Witness ==
    /\ op = "restore"
    /\ settingsBefore.defaultConfig # Null
    /\ \E c \in Categories :
          /\ settingsBefore.config[c] = <<"u", c>>
          /\ \E k \in Keys(c) :
                settingsBefore.objects[<<"u", c>>][k] # originalDefault[c][k]
    /\ DocValue(settings, settings.config) = originalDefault

\* C19: if loading either document fails, exactly one error notification
\* is raised, neither config nor defaultConfig is set, and the view shows
\* its loading display from then on.
C19_LoadFailureKeepsLoadingDisplay ==
    /\ errorToasts <= 1
    /\ op = "loadFailed" => errorToasts = 1
    /\ errorToasts > 0 =>
           /\ errorToasts = 1
           /\ settings.config = Null
           /\ settings.defaultConfig = Null
           /\ ShowsLoading(settings)
           /\ ~settings.loading

\* the default document's body was not JSON, after config.json had parsed
C19_Witness ==
    /\ op = "loadFailed"
    /\ load.configData \in ServedDocs
    /\ errorToasts = 1
    /\ ~settings.loading

\* C21 as stated: start, stop and tick change status only along
\* idle -> scanning (start), scanning -> complete (tick) and
\* scanning -> idle (stop).
C21_ThreeStatusChanges ==
    (op \in {"start", "stop", "tick"} /\ scannerStatus.status # before.status)
        => <<before.status, op, scannerStatus.status>> \in
               { <<"idle", "start", "scanning">>,
                 <<"scanning", "tick", "complete">>,
                 <<"scanning", "stop", "idle">> }

\* C21, amended: start also takes a completed scan back to scanning; these
\* four are the only status changes start, stop and tick produce, and none
\* of them takes complete to idle.
C21_FourStatusChanges ==
    (op \in {"start", "stop", "tick"} /\ scannerStatus.status # before.status)
        => <<before.status, op, scannerStatus.status>> \in
               { <<"idle", "start", "scanning">>,
                 <<"complete", "start", "scanning">>,
                 <<"scanning", "tick", "complete">>,
                 <<"scanning", "stop", "idle">> }

\* Start was clicked on a completed scan
C21_Witness ==
    /\ op = "start"
    /\ before.status = "complete"
    /\ before.progress = Full
    /\ scannerStatus = StartedState

\* C22: with a random source whose successive values differ, each firing of
\* the feeder draws the delay to the next one from [1000, 3000] ms, so the
\* delay after a firing differs from the delay before it.
C22_FreshDelayPerFiring ==
    /\ feederInterval =>
           feederDelay \in MinPeriod..(MinPeriod + PeriodSpread)
    /\ (op = "feed" /\ feederInterval) => feederDelay # lastGap

\* C23: once the view is torn down, no interval is armed, no capture
\* timeout is pending and no timer callback has run since.
C23_NoTimerAfterTeardown ==
    ~mounted =>
        /\ ~interval
        /\ ~feederInterval
        /\ ~captureInterval
        /\ pendingCaptures = 0
        /\ op \notin {"tick", "feed", "capture", "photo"}

ScanOps == {"start", "stop", "reset", "tick"}
LogOps == {"feed", "clear", "export"}

\* C24: every scan operation leaves the log buffer and what the feeder
\* reads as they were, and every console operation leaves ScanState and
\* what the scan tick reads as they were; a scan tick and a feeder tick
\* neither disarm nor alter one another, so either order gives one result.
C24_OwnStateOnly ==
    [][ /\ op' \in ScanOps => UNCHANGED <<logs, nextId, epoch, lastExport>>
        /\ op' \in LogOps =>
               UNCHANGED <<scannerStatus, lastPhoto, interval, rng, ticks>>
        /\ op' = "tick" => UNCHANGED <<feederInterval, feederDelay>>
        /\ op' = "export" => UNCHANGED logs ]_vars

\* an export in a running scan, after scan ticks and feeder ticks that
\* followed a clear
C24_Witness ==
    /\ op = "export"
    /\ scannerStatus.isScanning
    /\ scannerStatus.progress > 0
    /\ epoch = 1
    /\ Len(logs) > 2
    /\ lastGap > 0
    /\ lastExport = exportLogs(logs)
====
